---- MODULE Spec2Model ----
(***************************************************************************)
(* Shape and parameter validation of the pooling operators avg_pool,       *)
(* l2_pool and max_pool (coremltools/converters/mil/mil/ops/defs/iOS15/    *)
(* pool.py).  A node is built from compile-time constants (Init) and its   *)
(* type inference is run once; the outcome is either a tensor type or a    *)
(* ValueError (the "InvalidParameter" error kind).                         *)
(*                                                                         *)
(* Strings are sequences of one-character strings so that str.lower() is   *)
(* computed character by character.                                        *)
(***************************************************************************)
EXTENDS Integers, Sequences, FiniteSets

\* ---------------------------------------------------------------- bounds
MaxDin == 5
MaxK == 3
MaxS == 2
MaxPad == 2

\* ------------------------------------------------------ program constants
\* avg_pool docstring: 1 <= len(D_in) <= 3
MaxSpatialRank == 3

IOS15_TARGET == "iOS15"
OpsetVersions == {"iOS15", "iOS16"}
TypeDomainT == {"fp16", "fp32"}

\* ---------------------------------------------------------------- strings
UpperChars == << "A", "B", "C", "D", "E", "F", "G", "H", "I", "J", "K", "L", "M",
                 "N", "O", "P", "Q", "R", "S", "T", "U", "V", "W", "X", "Y", "Z" >>
LowerChars == << "a", "b", "c", "d", "e", "f", "g", "h", "i", "j", "k", "l", "m",
                 "n", "o", "p", "q", "r", "s", "t", "u", "v", "w", "x", "y", "z" >>

\* The lower-case letter of each upper-case letter.
LowerOfUpper ==
    [c \in {UpperChars[i] : i \in 1..Len(UpperChars)} |->
        LowerChars[CHOOSE i \in 1..Len(UpperChars) : UpperChars[i] = c]]

LowerChar(c) == IF c \in DOMAIN LowerOfUpper THEN LowerOfUpper[c] ELSE c

\* str.lower()
Lower(s) == [i \in 1..Len(s) |-> LowerChar(s[i])]

STR_valid == << "v", "a", "l", "i", "d" >>
STR_same == << "s", "a", "m", "e" >>
STR_custom == << "c", "u", "s", "t", "o", "m" >>
STR_same_lower == << "s", "a", "m", "e", "_", "l", "o", "w", "e", "r" >>
STR_SAME_LOWER == << "S", "A", "M", "E", "_", "L", "O", "W", "E", "R" >>
STR_Same == << "S", "a", "m", "e" >>
STR_full == << "f", "u", "l", "l" >>

RecognizedPadTypes == {STR_valid, STR_same, STR_custom, STR_same_lower}

PadTypeInputs ==
    {STR_valid, STR_same, STR_custom, STR_same_lower, STR_SAME_LOWER, STR_Same, STR_full}

\* ----------------------------------------------------------- error texts
\* A text is the sequence of its pieces.  The grave accent cannot be written
\* inside a string here, so it is the piece holding its code point, ord("`").
GRAVE == 96

DigitChars == << "0", "1", "2", "3", "4", "5", "6", "7", "8", "9" >>

\* "{}".format(n) of an integer n >= 0: its decimal digits.
RECURSIVE Decimal(_)
Decimal(n) ==
    IF n < 10 THEN << DigitChars[n + 1] >>
    ELSE Decimal(n \div 10) \o << DigitChars[(n % 10) + 1] >>

\* line 50: "Unrecognized value of pad_type : {}".format(pad_type)
MSG_pad_type(pad_type_) == << "Unrecognized value of pad_type : " >> \o pad_type_
MSG_ceil_rank == << "pool: ceil_mode only supported for 1D or 2D pool" >>
MSG_ceil_same == << "ceil_mode must be False when pad_type==same" >>
MSG_symmetric == << "Padding must be symmetric if ceil_mode is True" >>
MSG_same_lower == << "iOS15 version of pooling layers do not support pad_type = ", GRAVE, "same_lower", GRAVE >>
\* line 220: "l2_pool only supports rank 1 or 2. Got rank: {}".format(self.x.rank - 2)
MSG_l2_rank(n) == << "l2_pool only supports rank 1 or 2. Got rank: " >> \o Decimal(n)

\* No text.
NoMsg == << >>

VARIABLES op, opset, x_dtype, x_shape, kernel_sizes, strides, pad_type, pad,
          ceil_mode, result

inputs == << opset, x_dtype, x_shape, kernel_sizes, strides, pad_type, pad, ceil_mode >>
vars == << op, opset, x_dtype, x_shape, kernel_sizes, strides, pad_type, pad,
           ceil_mode, result >>

\* An optional input: None, or a bound constant with a value.
None == [given |-> FALSE, val |-> << >>]
Some(v) == [given |-> TRUE, val |-> v]

\* ------------------------------------------------------------ arithmetic
FloorDiv(a, b) == a \div b
CeilDiv(a, b) == -((-a) \div b)

Ones(n) == [i \in 1..n |-> 1]
Zeros(n) == [i \in 1..n |-> 0]

\* ------------------------------------------------- Parameter Defaulting
\* Pooling.default_inputs: strides = [1] * D, pad = [0] * 2 * D, ceil_mode = False
default_inputs(rank) ==
    [strides |-> Ones(rank - 2), pad |-> Zeros(2 * (rank - 2)), ceil_mode |-> FALSE]

\* ------------------------------------- Spatial Output-Shape Algorithm
\* (coremltools/converters/mil/mil/ops/defs/_utils.py, specified in 4.3)

\* The floor-mode output extent for a total padding P.
FloorExtent(Din, P, K, S) == FloorDiv(Din + P - K, S) + 1

\* same / same_lower: the minimal non-negative total padding for which the
\* floor-mode extent is ceil(Din / S).  It never exceeds K.
SamePadSum(Din, K, S) ==
    CHOOSE P \in 0..K :
        /\ FloorExtent(Din, P, K, S) = CeilDiv(Din, S)
        /\ \A Q \in 0..(P - 1) : FloorExtent(Din, Q, K, S) # CeilDiv(Din, S)

\* custom_pad = None is replaced by 2 * D zeros.
CustomPadOrZeros(custom_pad, D) ==
    IF custom_pad.given THEN custom_pad.val ELSE default_inputs(D + 2).pad

\* The effective pad sum P[i] of spatial dimension i (1-based).
aggregated_pad(pad_type_, input_shape, kernel_shape, strides_, custom_pad, i) ==
    IF pad_type_ = STR_valid THEN 0
    ELSE IF pad_type_ = STR_custom
    THEN LET cp == CustomPadOrZeros(custom_pad, Len(input_shape))
         IN cp[2 * i - 1] + cp[2 * i]
    ELSE SamePadSum(input_shape[i], kernel_shape[i], strides_[i])

\* The part of P[i] placed before dimension i: same puts the odd remainder
\* after the dimension, same_lower before it.
pad_before(pad_type_, input_shape, kernel_shape, strides_, custom_pad, i) ==
    LET P == aggregated_pad(pad_type_, input_shape, kernel_shape, strides_, custom_pad, i)
    IN IF pad_type_ = STR_valid THEN 0
       ELSE IF pad_type_ = STR_custom
       THEN CustomPadOrZeros(custom_pad, Len(input_shape))[2 * i - 1]
       ELSE IF pad_type_ = STR_same THEN P \div 2
       ELSE P - (P \div 2)

out_dim(pad_type_, input_shape, kernel_shape, strides_, custom_pad, ceil_mode_, i) ==
    LET P == aggregated_pad(pad_type_, input_shape, kernel_shape, strides_, custom_pad, i)
        before == pad_before(pad_type_, input_shape, kernel_shape, strides_, custom_pad, i)
        Din == input_shape[i]
        K == kernel_shape[i]
        S == strides_[i]
        ceiled == CeilDiv(Din + P - K, S) + 1
    IN IF ~ceil_mode_
       THEN FloorExtent(Din, P, K, S)
       ELSE IF (ceiled - 1) * S >= Din + before /\ P > 0
            THEN ceiled - 1
            ELSE ceiled

spatial_dimensions_out_shape(pad_type_, input_shape, kernel_shape, strides_, custom_pad, ceil_mode_) ==
    [i \in 1..Len(input_shape) |->
        out_dim(pad_type_, input_shape, kernel_shape, strides_, custom_pad, ceil_mode_, i)]

\* ------------------------------------------------------------- outcomes
NoResult == [kind |-> "none", msg |-> NoMsg, dtype |-> "", shape |-> << >>]
ValueError(m) == [kind |-> "ValueError", msg |-> m, dtype |-> "", shape |-> << >>]
\* types.tensor(dtype, shape)
tensor(dtype, shape) == [kind |-> "tensor", msg |-> NoMsg, dtype |-> dtype, shape |-> shape]

\* -------------------------------------------------- Validation Cascade
\* A slip of line 47: the given strides are never read.
StridesIgnored(strides_in, D_in_rank) == Ones(D_in_rank)

\* line 47: strides = [1] * D_in_rank if self.strides is None else self.strides.val
StridesOrDefault(strides_in, D_in_rank) ==
    IF ~strides_in.given THEN Ones(D_in_rank) ELSE strides_in.val

\* A slip of line 52: the slice x_shape[1:-1].
SpatialDimsOffByOne(shape) == SubSeq(shape, 2, Len(shape) - 1)

\* line 52: D_in = x_shape[2:]
SpatialDims(shape) == SubSeq(shape, 3, Len(shape))

\* A slip of lines 60-62: only the first spatial dimension is compared.
PadIsAsymmetricFirstDimOnly(pad_val, D_in_rank) == pad_val[1] # pad_val[2]

\* lines 60-62: some spatial dimension has pad[2 * i] != pad[2 * i + 1]
PadIsAsymmetric(pad_val, D_in_rank) ==
    \E i \in 0..(D_in_rank - 1) : pad_val[2 * i + 1] # pad_val[2 * i + 2]

\* A slip of lines 54-62: the symmetry check is made outside "if ceil_mode".
CeilModeChecksUnguardedSymmetry(ceil_mode_, D_in_rank, pad_type_, pad_in) ==
    IF ceil_mode_ /\ D_in_rank > 2 THEN MSG_ceil_rank
    ELSE IF pad_type_ = STR_same /\ ceil_mode_ THEN MSG_ceil_same
    ELSE IF pad_in.given /\ \E i \in 0..(D_in_rank - 1) :
                                pad_in.val[2 * i + 1] # pad_in.val[2 * i + 2]
    THEN MSG_symmetric
    ELSE NoMsg

\* A slip of lines 54-62: the pad_type == same check is made before the rank check.
CeilModeChecksSameFirst(ceil_mode_, D_in_rank, pad_type_, pad_in) ==
    IF ~ceil_mode_ THEN NoMsg
    ELSE IF pad_type_ = STR_same /\ ceil_mode_ THEN MSG_ceil_same
    ELSE IF D_in_rank > 2 THEN MSG_ceil_rank
    ELSE IF pad_in.given /\ \E i \in 0..(D_in_rank - 1) :
                                pad_in.val[2 * i + 1] # pad_in.val[2 * i + 2]
    THEN MSG_symmetric
    ELSE NoMsg

\* lines 54-62: the checks made under ceil_mode; no text when none raises
CeilModeChecks(ceil_mode_, D_in_rank, pad_type_, pad_in) ==
    IF ~ceil_mode_ THEN NoMsg
    ELSE IF D_in_rank > 2 THEN MSG_ceil_rank
    ELSE IF pad_type_ = STR_same /\ ceil_mode_ THEN MSG_ceil_same
    ELSE IF pad_in.given /\ PadIsAsymmetric(pad_in.val, D_in_rank) THEN MSG_symmetric
    ELSE NoMsg

\* line 65: curr_opset_version() == _IOS15_TARGET and self.pad_type.val == "same_lower"
SameLowerUnsupported(opset_, pad_type_val) ==
    opset_ = IOS15_TARGET /\ pad_type_val = STR_same_lower

\* A slip of line 77: the slice x_shape[:1].
RetShapeBatchOnly(shape, D_out_shape) == SubSeq(shape, 1, 1) \o D_out_shape

\* line 77: ret_shape = list(x_shape[:2]) + D_out_shape
RetShape(shape, D_out_shape) == SubSeq(shape, 1, 2) \o D_out_shape

\* Pooling.type_inference
Pooling_type_inference(opset_, dtype, shape, ksize, strides_in, pad_type_in, pad_in, ceil_mode_) ==
    LET D_in_rank == Len(shape) - 2
        strides_ == StridesOrDefault(strides_in, D_in_rank)
        pad_type_ == Lower(pad_type_in)
        D_in == SpatialDims(shape)
        ceil_msg == CeilModeChecks(ceil_mode_, D_in_rank, pad_type_, pad_in)
    IN IF pad_type_ \notin RecognizedPadTypes THEN ValueError(MSG_pad_type(pad_type_))
       ELSE IF ceil_msg # NoMsg THEN ValueError(ceil_msg)
       ELSE IF SameLowerUnsupported(opset_, pad_type_in) THEN ValueError(MSG_same_lower)
       ELSE tensor(dtype,
                   RetShape(shape,
                            spatial_dimensions_out_shape(pad_type_, D_in, ksize, strides_,
                                                         pad_in, ceil_mode_)))

\* l2_pool.type_inference
l2_pool_type_inference(opset_, dtype, shape, ksize, strides_in, pad_type_in, pad_in, ceil_mode_) ==
    IF Len(shape) - 2 > 2
    THEN ValueError(MSG_l2_rank(Len(shape) - 2))
    ELSE Pooling_type_inference(opset_, dtype, shape, ksize, strides_in, pad_type_in,
                                pad_in, ceil_mode_)

\* The explicit switch over the three registered operators.
TypeInferenceOf(op_, opset_, dtype, shape, ksize, strides_in, pad_type_in, pad_in, ceil_mode_) ==
    IF op_ = "l2_pool"
    THEN l2_pool_type_inference(opset_, dtype, shape, ksize, strides_in, pad_type_in,
                                pad_in, ceil_mode_)
    ELSE Pooling_type_inference(opset_, dtype, shape, ksize, strides_in, pad_type_in,
                                pad_in, ceil_mode_)

\* ------------------------------------------------------------ the nodes
BatchDim == 1
ChannelDim == 3

\* A node of spatial rank D: one spatial dimension f ranges over all extents,
\* kernels, strides and paddings; the others hold the largest values.
Spread(D, f, v, rest) == [i \in 1..D |-> IF i = f THEN v ELSE rest]

PadOf(D, f, b, a) ==
    [j \in 1..(2 * D) |->
        IF j = 2 * f - 1 THEN b ELSE IF j = 2 * f THEN a ELSE MaxPad]

StridesInputs(D, f) == {None} \cup {Some(Spread(D, f, s, MaxS)) : s \in 1..MaxS}

PadInputs(D, f) ==
    {None} \cup {Some(PadOf(D, f, b, a)) : b \in 0..MaxPad, a \in 0..MaxPad}

Init ==
    /\ op = "none"
    /\ result = NoResult
    /\ opset \in OpsetVersions
    /\ x_dtype \in TypeDomainT
    /\ pad_type \in PadTypeInputs
    /\ ceil_mode \in BOOLEAN
    /\ \E D \in 1..MaxSpatialRank, f \in 1..MaxSpatialRank :
        /\ f <= D
        /\ x_shape \in {<< BatchDim, ChannelDim >> \o Spread(D, f, d, MaxDin) : d \in 1..MaxDin}
        /\ kernel_sizes \in {Spread(D, f, k, MaxK) : k \in 1..MaxK}
        /\ strides \in StridesInputs(D, f)
        /\ pad \in PadInputs(D, f)

\* One type inference of the node by the operator op_.
Infer(op_) ==
    /\ op = "none"
    /\ op' = op_
    /\ result' = TypeInferenceOf(op_, opset, x_dtype, x_shape, kernel_sizes, strides,
                                 pad_type, pad, ceil_mode)
    /\ UNCHANGED inputs

avg_pool == Infer("avg_pool")
l2_pool == Infer("l2_pool")
max_pool == Infer("max_pool")

Next == avg_pool \/ l2_pool \/ max_pool

Spec == Init /\ [][Next]_vars

\* The nodes whose pad_type is written in lower case.
InitLowerCase == Init /\ pad_type = Lower(pad_type)

SpecLowerCase == InitLowerCase /\ [][Next]_vars

\* The nodes of one element type: the element type only passes through, and
\* the comparisons of one node under two paddings are made over these.
InitSingleType == Init /\ x_dtype = "fp32"

SpecSingleType == InitSingleType /\ [][Next]_vars

\* =============================================================== claims
Done == op # "none"
Succeeded == result.kind = "tensor"
Raised == result.kind = "ValueError"
NDims == Len(x_shape) - 2
Dims == 1..NDims
Din(i) == x_shape[i + 2]
Dout(i) == result.shape[i + 2]
K(i) == kernel_sizes[i]
S(i) == IF strides.given THEN strides.val[i] ELSE 1
LoweredPadType == Lower(pad_type)
PadBeforeGiven(i) == IF pad.given THEN pad.val[2 * i - 1] ELSE 0
PadAfterGiven(i) == IF pad.given THEN pad.val[2 * i] ELSE 0
SomeDimAsymmetric == pad.given /\ \E i \in Dims : PadBeforeGiven(i) # PadAfterGiven(i)

\* The least integer q with q * b >= a, for b > 0.
Ceiling(a, b) ==
    CHOOSE q \in (0 - MaxK - 1)..(MaxDin + 2 * MaxPad + 1) : q * b >= a /\ (q - 1) * b < a

\* valid / custom: the pad sum and leading pad the documentation gives.
DocP(i) == IF LoweredPadType = STR_custom THEN PadBeforeGiven(i) + PadAfterGiven(i) ELSE 0
DocPadBefore(i) == IF LoweredPadType = STR_custom THEN PadBeforeGiven(i) ELSE 0
DocCeilRaw(i) == Ceiling(Din(i) + DocP(i) - K(i), S(i)) + 1
DocCorrects(i) == (DocCeilRaw(i) - 1) * S(i) >= Din(i) + DocPadBefore(i) /\ DocP(i) > 0

\* C1: a pooling operator that passes validation with ceil_mode = true and
\* pad_type valid or custom has Dout[i] = ceil((Din[i] + P[i] - K[i]) / S[i]) + 1,
\* less 1 exactly when (Dout[i] - 1) * S[i] >= Din[i] + pad_before[i] and P[i] > 0;
\* Din = [5], K = [3], S = [2], valid gives Dout = [2].
C1_CeilModeExtent ==
    (Done /\ Succeeded /\ ceil_mode /\ LoweredPadType \in {STR_valid, STR_custom}) =>
        /\ \A i \in Dims :
            Dout(i) = IF DocCorrects(i) THEN DocCeilRaw(i) - 1 ELSE DocCeilRaw(i)
        /\ (/\ NDims = 1 /\ Din(1) = 5 /\ K(1) = 3 /\ S(1) = 2
            /\ LoweredPadType = STR_valid) => Dout(1) = 2

C1_Witness ==
    /\ Done /\ Succeeded /\ ceil_mode /\ LoweredPadType = STR_custom
    /\ NDims = 2 /\ strides.given
    /\ DocCorrects(2) /\ ~DocCorrects(1)
    /\ Dout(2) = DocCeilRaw(2) - 1

\* C2: on iOS15 a pad_type that lower-cases to same_lower always raises.
C2_SameLowerRaisesOnIOS15 ==
    (Done /\ opset = IOS15_TARGET /\ LoweredPadType = STR_same_lower) => Raised

\* C3: ceil_mode = true with a given pad that is asymmetric in some spatial
\* dimension raises, whatever the pad_type, kernel, strides, shape and target.
C3_AsymmetricPadRaises ==
    (Done /\ ceil_mode /\ SomeDimAsymmetric) => Raised

C3_Witness ==
    /\ Done /\ ceil_mode /\ pad.given /\ NDims = 2
    /\ PadBeforeGiven(1) = PadAfterGiven(1) /\ PadBeforeGiven(2) # PadAfterGiven(2)
    /\ LoweredPadType = STR_valid
    /\ result = ValueError(MSG_symmetric)

\* C4 as stated: pad_type = same, ceil_mode = false and every stride 1 succeeds
\* with Dout[i] = Din[i] in every spatial dimension, for every pooling operator.
C4_SameUnitStrideIdentity ==
    (Done /\ LoweredPadType = STR_same /\ ~ceil_mode /\ \A i \in Dims : S(i) = 1) =>
        Succeeded /\ \A i \in Dims : Dout(i) = Din(i)

\* C4 amended: the same, for every pooling operator except l2_pool over three
\* spatial dimensions (which raises).
C4_SameUnitStrideIdentityAmended ==
    (/\ Done /\ LoweredPadType = STR_same /\ ~ceil_mode /\ \A i \in Dims : S(i) = 1
     /\ ~(op = "l2_pool" /\ NDims > 2)) =>
        Succeeded /\ \A i \in Dims : Dout(i) = Din(i)

C4_Witness ==
    /\ Done /\ LoweredPadType = STR_same /\ ~ceil_mode /\ \A i \in Dims : S(i) = 1
    /\ NDims = 2 /\ K(1) = MaxK /\ K(2) = 1 /\ Din(2) # ChannelDim
    /\ Succeeded /\ Dout(2) = Din(2)

\* The outcome of the same operator on the same node with pad_type and pad replaced.
OutcomeWith(pad_type_alt, pad_alt) ==
    TypeInferenceOf(op, opset, x_dtype, x_shape, kernel_sizes, strides, pad_type_alt,
                    pad_alt, ceil_mode)

\* The custom pads whose per-dimension sums are total[i], by their leading parts.
SplitPads(total) ==
    {[j \in 1..(2 * NDims) |->
        IF j % 2 = 1 THEN b[(j + 1) \div 2] ELSE total[j \div 2] - b[j \div 2]] :
     b \in {c \in [Dims -> 0..MaxK] : \A i \in Dims : c[i] <= total[i]}}

\* The total padding of same: max(0, (ceil(Din / S) - 1) * S + K - Din).
SameTotal(i) ==
    LET t == (Ceiling(Din(i), S(i)) - 1) * S(i) + K(i) - Din(i)
    IN IF t > 0 THEN t ELSE 0

\* C5: with ceil_mode = false, pad_type = same gives the outcome of
\* pad_type = custom with any pad whose sums are pad[2i] + pad[2i+1] = kernel_sizes[i].
C5_SameIsCustomKernelPad ==
    (Done /\ LoweredPadType = STR_same /\ ~ceil_mode) =>
        \A p \in SplitPads([i \in Dims |-> K(i)]) :
            OutcomeWith(STR_custom, Some(p)) = result

\* The values of pad tried in place of the node's: unset, or a pad that is
\* MaxPad everywhere but in one spatial dimension, where each side is 0 or MaxPad.
AltPads ==
    {None} \cup {Some(PadOf(NDims, g, b, a)) : g \in Dims, b \in {0, MaxPad}, a \in {0, MaxPad}}

UnsetOrSymmetric(p) ==
    ~p.given \/ \A i \in Dims : p.val[2 * i - 1] = p.val[2 * i]

\* C6 as stated: when pad_type is not custom the outcome is the same for every
\* value of pad, unset included.
C6_PadIgnoredUnlessCustom ==
    (Done /\ LoweredPadType # STR_custom) =>
        \A p \in AltPads : OutcomeWith(pad_type, p) = result

\* C6 amended: when pad_type is not custom the outcome is the same for every
\* value of pad if ceil_mode = false, and the same for every unset or symmetric
\* pad if ceil_mode = true.
C6_PadIgnoredUnlessCustomOrCeil ==
    (Done /\ LoweredPadType # STR_custom) =>
        \A p \in AltPads :
            (~ceil_mode \/ (UnsetOrSymmetric(p) /\ UnsetOrSymmetric(pad))) =>
                OutcomeWith(pad_type, p) = result

C6_Witness ==
    /\ Done /\ LoweredPadType = STR_valid /\ Succeeded /\ ~ceil_mode
    /\ pad.given /\ ~UnsetOrSymmetric(pad) /\ NDims = 2
    /\ OutcomeWith(pad_type, None) = result
    /\ Dout(1) < Din(1)

\* C7: a successful inference returns the input's element type and rank, the
\* input's batch and channel dimensions, and the computed Dout in the trailing
\* rank - 2 dimensions; a failed one returns no type; every call ends in exactly
\* one of the two; and the node's input and parameters are left unchanged.
C7_Frame ==
    /\ [](Done =>
            /\ (Succeeded /\ ~Raised) \/ (Raised /\ ~Succeeded)
            /\ Raised => result.shape = << >> /\ result.dtype = "" /\ result.msg # NoMsg
            /\ Succeeded =>
                /\ result.msg = NoMsg
                /\ result.dtype = x_dtype
                /\ Len(result.shape) = Len(x_shape)
                /\ result.shape[1] = x_shape[1]
                /\ result.shape[2] = x_shape[2]
                /\ SubSeq(result.shape, 3, Len(result.shape)) =
                       spatial_dimensions_out_shape(LoweredPadType, SpatialDims(x_shape),
                           kernel_sizes, [i \in Dims |-> S(i)], pad, ceil_mode))
    /\ [][inputs' = inputs]_vars

C7_Witness ==
    /\ Done /\ Succeeded /\ NDims = 3 /\ x_dtype = "fp16" /\ result.dtype = "fp16"
    /\ result.shape # x_shape
    /\ result.shape[1] = BatchDim /\ result.shape[2] = ChannelDim

\* The leading pad of dimension i under each pad_type.
LeadingPad(i) ==
    IF LoweredPadType = STR_custom THEN PadBeforeGiven(i)
    ELSE IF LoweredPadType = STR_same THEN SameTotal(i) \div 2
    ELSE IF LoweredPadType = STR_same_lower THEN SameTotal(i) - (SameTotal(i) \div 2)
    ELSE 0

TotalPad(i) ==
    IF LoweredPadType = STR_custom THEN PadBeforeGiven(i) + PadAfterGiven(i)
    ELSE IF LoweredPadType \in {STR_same, STR_same_lower} THEN SameTotal(i)
    ELSE 0

\* C8 as stated: after a successful ceil-mode inference, in every spatial
\* dimension with Dout[i] >= 1, (Dout[i] - 1) * S[i] < Din[i] + pad_before[i],
\* also when P[i] = 0.
C8_LastWindowStartsInside ==
    (Done /\ Succeeded /\ ceil_mode) =>
        \A i \in Dims :
            Dout(i) >= 1 => (Dout(i) - 1) * S(i) < Din(i) + LeadingPad(i)

\* C8 amended: the same, in every spatial dimension with Dout[i] >= 1,
\* P[i] > 0 and pad_before[i] <= K[i].
C8_LastWindowStartsInsidePadded ==
    (Done /\ Succeeded /\ ceil_mode) =>
        \A i \in Dims :
            (Dout(i) >= 1 /\ TotalPad(i) > 0 /\ LeadingPad(i) <= K(i)) =>
                (Dout(i) - 1) * S(i) < Din(i) + LeadingPad(i)

C8_Witness ==
    /\ Done /\ Succeeded /\ ceil_mode /\ LoweredPadType = STR_custom
    /\ NDims = 1 /\ DocCorrects(1) /\ Dout(1) >= 1
    /\ TotalPad(1) > 0 /\ LeadingPad(1) <= K(1)
    /\ (Dout(1) - 1) * S(1) < Din(1) + LeadingPad(1)
    /\ Dout(1) * S(1) >= Din(1) + LeadingPad(1)

\* C9: whenever validation passes with ceil_mode = true the pad_type is valid
\* or custom; ceil_mode = true with same or same_lower raises on every target.
C9_CeilModeOnlyValidOrCustom ==
    (Done /\ ceil_mode) =>
        /\ Succeeded => LoweredPadType \in {STR_valid, STR_custom}
        /\ LoweredPadType \in {STR_same, STR_same_lower} => Raised

\* The validation checks, in the documented order.
Fails_l2_rank == op = "l2_pool" /\ NDims > 2
Fails_pad_type == LoweredPadType \notin {STR_valid, STR_same, STR_custom, STR_same_lower}
Fails_ceil_rank == ceil_mode /\ NDims > 2
Fails_ceil_same == ceil_mode /\ LoweredPadType = STR_same
Fails_symmetric == ceil_mode /\ SomeDimAsymmetric
Fails_same_lower == opset = IOS15_TARGET /\ LoweredPadType = STR_same_lower

\* C10: the error raised is that of the first failing check in the order
\* l2_pool rank, pad_type, ceil_mode rank, ceil_mode with same, symmetric pad,
\* same_lower on iOS15; l2_pool over three spatial dimensions always raises its own.
C10_FirstFailingCheck ==
    Done =>
        /\ Fails_l2_rank <=> result = ValueError(MSG_l2_rank(NDims))
        /\ (~Fails_l2_rank /\ Fails_pad_type) <=> result = ValueError(MSG_pad_type(LoweredPadType))
        /\ (~Fails_l2_rank /\ ~Fails_pad_type /\ Fails_ceil_rank)
               <=> result = ValueError(MSG_ceil_rank)
        /\ (~Fails_l2_rank /\ ~Fails_pad_type /\ ~Fails_ceil_rank /\ Fails_ceil_same)
               <=> result = ValueError(MSG_ceil_same)
        /\ (/\ ~Fails_l2_rank /\ ~Fails_pad_type /\ ~Fails_ceil_rank /\ ~Fails_ceil_same
            /\ Fails_symmetric) <=> result = ValueError(MSG_symmetric)
        /\ result = ValueError(MSG_same_lower) =>
               (/\ ~Fails_l2_rank /\ ~Fails_pad_type /\ ~Fails_ceil_rank
                /\ ~Fails_ceil_same /\ ~Fails_symmetric /\ Fails_same_lower)
        /\ Raised => (\/ Fails_l2_rank \/ Fails_pad_type \/ Fails_ceil_rank
                      \/ Fails_ceil_same \/ Fails_symmetric \/ Fails_same_lower)

C10_Witness ==
    /\ Done /\ op = "max_pool"
    /\ Fails_ceil_rank /\ Fails_ceil_same /\ Fails_symmetric
    /\ result = ValueError(MSG_ceil_rank)

====
